---------------------------- MODULE Spec2Model ----------------------------
(***************************************************************************)
(* Model of the desktop host's service supervisor (apps/desktop/src-tauri).*)
(*                                                                         *)
(* Two managed slots (ServerState, TunnelState), each a tokio Mutex around *)
(* an Option<Handle>, are driven by six tauri commands that run as         *)
(* concurrent async tasks.  window::setup additionally launches a backend  *)
(* process on its own at application launch.  Child processes are opaque:  *)
(* they can be spawned, can exit on their own, and can be killed.          *)
(*                                                                         *)
(* An Option<T> is modelled as a sequence of length 0 (None) or 1 (Some).  *)
(***************************************************************************)
EXTENDS Integers, Sequences, FiniteSets, TLC

\* ------------------------------------------------------------------ bounds
MaxCmds == 3         \* commands the UI issues in one run, each its own task
MaxLiveCmds == 2     \* commands issued in the runs checked for termination
MaxDepth == 11       \* deepest directory (components below the root) of a walk
MaxStartDepth == 2   \* deepest directory in the runs of server::start

\* --------------------------------------------------------------- constants
DEFAULT_SERVER_PORT == 8787
DEFAULT_STATUS_PORT == 8787
ServerPathLevels == 5        \* get_server_path: `for _ in 0..5`
ProjectRootCwdLevels == 10   \* find_project_root: `for _ in 0..10`
ProjectRootExeLevels == 5    \* find_project_root: `for _ in 0..5`
ServerDirLevels == 10        \* find_server_directory: `for _ in 0..10`

Tasks    == 1..MaxCmds
Services == {"backend", "tunnel"}
Ports    == {DEFAULT_SERVER_PORT, DEFAULT_SERVER_PORT + 1}

StartCmds  == {"start_server", "start_tunnel"}
StopCmds   == {"stop_server", "stop_tunnel"}
StatusCmds == {"get_server_status", "get_tunnel_status"}
Cmds       == StartCmds \cup StopCmds \cup StatusCmds

\* The slot a command's State<'_, ...> parameter refers to.
SvcOf(cmd) == IF cmd \in {"start_server", "stop_server", "get_server_status"}
              THEN "backend" ELSE "tunnel"

\* Which mutex guards a slot: one TokioMutex per managed state.
LockOfShared(s) == "backend"
LockOf(s) == s

None == <<>>
Some(x) == <<x>>
is_some(o) == Len(o) > 0
is_none(o) == Len(o) = 0
unwrap(o) == o[1]

VARIABLES
    state,      \* state[s]: Option<Handle>, the content of the slot's mutex
    lock,       \* lock[s]: set of tasks holding the slot's mutex (0 or 1)
    procs,      \* procs[pid]: the child process created by task pid (0: auto-start)
    task,       \* task[t]: one command invocation (async task) and its position
    autoPc,     \* position of the auto-start task spawned by window::setup
    hist,       \* the last start or stop performed on the backend slot (history)
    reply,      \* the reply most recently delivered to the UI
    monitor,    \* monitor[pid]: the background task tunnel::start spawns for child pid
    out,        \* pids of the tunnel children that have written their URL to stdout
    walk        \* one run of a locator function: its inputs, position and result

vars == <<state, lock, procs, task, autoPc, hist, reply, monitor, out, walk>>

\* ------------------------------------------------------------- results
NoValue == [ok |-> FALSE, msg |-> "none", running |-> FALSE, port |-> 0, url |-> None]

Err(m) == [ok |-> FALSE, msg |-> m, running |-> FALSE, port |-> 0, url |-> None]
OkMsg(m, p) == [ok |-> TRUE, msg |-> m, running |-> FALSE, port |-> p, url |-> None]

\* commands.rs: the error strings of the four protocol violations.
AlreadyRunning(s) == IF s = "backend" THEN Err("Server is already running")
                     ELSE Err("Tunnel is already running")
NotRunning(s) == IF s = "backend" THEN Err("Server is not running")
                 ELSE Err("Tunnel is not running")
StopError(s) == IF s = "backend" THEN Err("Failed to stop server")
                ELSE Err("Failed to stop tunnel")

IdleTask == [cmd |-> "none", port |-> 0, pc |-> "idle", handle |-> None]
DoneTask == [cmd |-> "none", port |-> 0, pc |-> "done", handle |-> None]
NoReply  == [cmd |-> "none", result |-> NoValue]

\* ------------------------------------------------------------- handles
ServerHandle(pid, port) == [child |-> pid, port |-> port, url |-> None]
TunnelHandle(pid) == [child |-> pid, port |-> 0, url |-> None]

\* tunnel::get_url: clone of the Option<String> behind the handle's mutex.
get_url(handle) == handle.url

\* Whether the background task of tunnel::start holds the url mutex of child
\* p: its body takes no lock at all.
MonitorHoldsUrlForever(p) == monitor[p] # "none"
MonitorHoldsUrl(p) == FALSE

\* handle.url.lock().await inside get_url, for the handle in o (if any).
UrlLockFree(o) == \A i \in DOMAIN o : ~MonitorHoldsUrl(o[i].child)

\* Process ids: a child is named after the task that spawned it, 0 being
\* the auto-start task of window::setup.
Pids == 0..MaxCmds
NoProc == [svc |-> "none", alive |-> FALSE]
Proc(s) == [svc |-> s, alive |-> TRUE]

LiveProcs(s) == {p \in Pids : procs[p].svc = s /\ procs[p].alive}

\* ------------------------------------------------------------- locator
\* A directory is named by its depth below the filesystem root (0) on the
\* chain of ancestors of the start directory.  srv, pkgCwd, pkgExe and apps
\* are the depths at which the file a walk looks for exists:
\*   srv:    [src-tauri/]resources/server/index.js, ancestors of the exe dir
\*   pkgCwd: package.json, ancestors of the working directory
\*   pkgExe: package.json, ancestors of the exe dir
\*   apps:   apps/server with a package.json, ancestors of the exe dir
NoWalk ==
    [fn |-> "none", dev |-> FALSE, debug |-> FALSE, port |-> 0,
     exeDepth |-> 0, cwdDepth |-> 0,
     srv |-> {}, pkgCwd |-> {}, pkgExe |-> {}, apps |-> {},
     pc |-> "idle", cur |-> 0, iter |-> 0, n |-> 0, loop |-> "none",
     result |-> "none", target |-> "none", launchPort |-> None]

\* ---------------------------------------------------------------- Init
SupervisorInit ==
    /\ state = [s \in Services |-> None]
    /\ lock = [s \in Services |-> {}]
    /\ procs = [p \in Pids |-> NoProc]
    /\ task = [t \in Tasks |-> IdleTask]
    /\ autoPc = "sleep"
    /\ hist = [op |-> "none", port |-> 0]
    /\ reply = NoReply
    /\ monitor = [p \in Pids |-> "none"]
    /\ out = {}

Init ==
    /\ SupervisorInit
    /\ walk = NoWalk

\* ------------------------------------------------------------ helpers
\* The handler returns r: the task ends and the UI receives the reply.
Return(t, r) ==
    /\ task' = [task EXCEPT ![t] = DoneTask]
    /\ reply' = [cmd |-> task[t].cmd, result |-> r]

\* state.0.lock().await: granted only when nobody holds the mutex.  No
\* suspension point lies between the acquisition and the check that follows
\* it, so each handler's first step is the acquisition together with the check.
CanAcquireAlways(s) == TRUE
CanAcquire(s) == lock[LockOf(s)] = {}

Acquire(s, t) == [lock EXCEPT ![LockOf(s)] = @ \cup {t}]

\* The MutexGuard is dropped when the handler returns.
Release(s, t) == [lock EXCEPT ![LockOf(s)] = @ \ {t}]

\* The UI invokes a command: tauri runs the async handler as a new task.
\* Tasks are numbered in the order of invocation.  The port of start_tunnel
\* only reaches the child's argument list and is not kept.
Invoke(t) ==
    /\ task[t].pc = "idle"
    /\ \A u \in Tasks : u < t => task[u].pc # "idle"
    /\ \E c \in Cmds, p \in Ports :
         task' = [task EXCEPT ![t] = [cmd |-> c,
                                      port |-> IF c = "start_server" THEN p ELSE 0,
                                      pc |-> "lock", handle |-> None]]
    /\ UNCHANGED <<state, lock, procs, autoPc, hist, reply, monitor, out, walk>>

\* ------------------------------------------------------ start commands
\* `if state.is_some() { return Err("... already running") }`
StartRejectsNever(o) == FALSE
StartRejects(o) == is_some(o)

\* start_server / start_tunnel: the lock and the emptiness check under it.
StartCheck(t) ==
    LET s == SvcOf(task[t].cmd) IN
    /\ task[t].pc = "lock"
    /\ task[t].cmd \in StartCmds
    /\ CanAcquire(s)
    /\ IF StartRejects(state[s])
       THEN /\ Return(t, AlreadyRunning(s))
            /\ lock' = lock
       ELSE /\ task' = [task EXCEPT ![t].pc = "spawn"]
            /\ lock' = Acquire(s, t)
            /\ reply' = reply
    /\ UNCHANGED <<state, procs, autoPc, hist, monitor, out, walk>>

\* A start that records the instance before the outcome of the spawn is known.
server_start_marks_slot(t) ==
    /\ task[t].pc = "spawn"
    /\ task[t].cmd = "start_server"
    /\ \/ /\ \E m \in {"Server executable not found", "Failed to start server"} :
               Return(t, Err(m))
          /\ lock' = [lock EXCEPT !["backend"] = @ \ {t}]
          /\ procs' = procs
          /\ state' = [state EXCEPT !["backend"] =
                          <<[child |-> t, port |-> task[t].port, url |-> <<>>]>>]
       \/ /\ procs' = [procs EXCEPT ![t] = [svc |-> "backend", alive |-> TRUE]]
          /\ task' = [task EXCEPT ![t].pc = "store",
                         ![t].handle =
                             <<[child |-> t, port |-> task[t].port, url |-> <<>>]>>]
          /\ UNCHANGED <<lock, reply, state>>
    /\ UNCHANGED <<autoPc, hist, monitor, out, walk>>

\* server::start(port).await: the launch target is not found, the OS refuses
\* the spawn, or a child is created and wrapped in a ServerHandle.
server_start(t) ==
    /\ task[t].pc = "spawn"
    /\ task[t].cmd = "start_server"
    /\ \/ /\ \E m \in {"Server executable not found", "Failed to start server"} :
               Return(t, Err(m))
          /\ lock' = Release("backend", t)
          /\ procs' = procs
       \/ /\ procs' = [procs EXCEPT ![t] = Proc("backend")]
          /\ task' = [task EXCEPT ![t].pc = "store",
                         ![t].handle = Some(ServerHandle(t, task[t].port))]
          /\ UNCHANGED <<lock, reply>>
    /\ UNCHANGED <<state, autoPc, hist, monitor, out, walk>>

\* tunnel::start(port).await: spawn `npx localtunnel --port <port>`; the url
\* cell of the new handle starts as None.
tunnel_start(t) ==
    /\ task[t].pc = "spawn"
    /\ task[t].cmd = "start_tunnel"
    /\ \/ /\ Return(t, Err("Failed to start tunnel"))
          /\ lock' = Release("tunnel", t)
          /\ UNCHANGED <<procs, monitor>>
       \/ /\ procs' = [procs EXCEPT ![t] = Proc("tunnel")]
          /\ monitor' = [monitor EXCEPT ![t] = "sleep"]
          /\ task' = [task EXCEPT ![t].pc = "store",
                         ![t].handle = Some(TunnelHandle(t))]
          /\ UNCHANGED <<lock, reply>>
    /\ UNCHANGED <<state, autoPc, hist, out, walk>>

\* What the start command answers once the handle is stored.
StartAnswer(cmd, handle) ==
    IF cmd = "start_server"
    THEN OkMsg("Server started on port", handle.port)
    ELSE IF is_some(get_url(handle))
         THEN [ok |-> TRUE, msg |-> "url", running |-> FALSE, port |-> 0,
               url |-> get_url(handle)]
         ELSE Err("Tunnel started but URL not available")

\* `*state = Some(handle)`: executed whatever the answer will be.
StoredOnlyOnOk(cmd, handle) ==
    IF StartAnswer(cmd, handle).ok THEN Some(handle) ELSE None
Stored(cmd, handle) == Some(handle)

\* `*state = Some(handle)` followed by the return value; the guard drops.
StartStore(t) ==
    LET s == SvcOf(task[t].cmd) IN
    /\ task[t].pc = "store"
    /\ s = "tunnel" => UrlLockFree(task[t].handle)
    /\ state' = [state EXCEPT ![s] = Stored(task[t].cmd, unwrap(task[t].handle))]
    /\ Return(t, StartAnswer(task[t].cmd, unwrap(task[t].handle)))
    /\ lock' = Release(s, t)
    /\ hist' = IF s = "backend" THEN [op |-> "start", port |-> task[t].port]
               ELSE hist
    /\ UNCHANGED <<procs, autoPc, monitor, out, walk>>

\* ------------------------------------------------------- stop commands
\* `if state.is_none() { return Err("... not running") }`
StopRejectsInverted(o) == is_some(o)
StopRejects(o) == is_none(o)

\* Option::take(): the handle moves out of the slot, the slot becomes None.
TakeKeeps(o) == [taken |-> o, rest |-> o]
Take(o) == [taken |-> o, rest |-> None]

\* stop_server / stop_tunnel: the lock, the check and the take, up to the
\* await of the kill.
StopCheck(t) ==
    LET s == SvcOf(task[t].cmd) IN
    /\ task[t].pc = "lock"
    /\ task[t].cmd \in StopCmds
    /\ CanAcquire(s)
    /\ IF StopRejects(state[s])
       THEN /\ Return(t, NotRunning(s))
            /\ UNCHANGED <<lock, state, hist>>
       ELSE /\ task' = [task EXCEPT ![t].pc = "kill",
                                    ![t].handle = Take(state[s]).taken]
            /\ state' = [state EXCEPT ![s] = Take(state[s]).rest]
            /\ hist' = IF s = "backend" THEN [op |-> "stop", port |-> 0]
                       ELSE hist
            /\ lock' = Acquire(s, t)
            /\ reply' = reply
    /\ UNCHANGED <<procs, autoPc, monitor, out, walk>>

\* The process table after a successful Child::kill() of the handle's child.
Killed(h) ==
    [p \in Pids |->
        IF \E i \in DOMAIN h : h[i].child = p
        THEN [procs[p] EXCEPT !.alive = FALSE] ELSE procs[p]]

\* server::stop / tunnel::stop: handle.child.kill().await, Ok or an io error
\* mapped to "Failed to stop ..."; the handle is dropped either way.
StopKill(t) ==
    LET s == SvcOf(task[t].cmd) IN
    /\ task[t].pc = "kill"
    /\ \/ /\ procs' = Killed(task[t].handle)
          /\ Return(t, OkMsg(IF s = "backend" THEN "Server stopped"
                             ELSE "Tunnel stopped", 0))
       \/ /\ procs' = procs
          /\ Return(t, StopError(s))
    /\ lock' = Release(s, t)
    /\ UNCHANGED <<state, autoPc, hist, monitor, out, walk>>

\* ----------------------------------------------------- status commands
\* get_server_status: running = is_some, port = handle.port or 8787.
StatusPortDefault(o) ==
    [ok |-> TRUE, msg |-> "status", running |-> is_some(o),
     port |-> DEFAULT_STATUS_PORT, url |-> None]
ServerStatus(o) ==
    [ok |-> TRUE, msg |-> "status", running |-> is_some(o),
     port |-> IF is_some(o) THEN unwrap(o).port ELSE DEFAULT_STATUS_PORT,
     url |-> None]

\* A status that treats a missing URL the way start_tunnel does.
TunnelStatusErrWithoutUrl(o) ==
    IF is_some(o) /\ is_none(o[1].url)
    THEN [ok |-> FALSE, msg |-> "Tunnel started but URL not available",
          running |-> FALSE, port |-> 0, url |-> <<>>]
    ELSE [ok |-> TRUE, msg |-> "status", running |-> is_some(o), port |-> 0,
          url |-> IF is_some(o) THEN o[1].url ELSE <<>>]

\* get_tunnel_status: running = is_some, url = get_url(handle) or None.
TunnelStatus(o) ==
    [ok |-> TRUE, msg |-> "status", running |-> is_some(o), port |-> 0,
     url |-> IF is_some(o) THEN get_url(unwrap(o)) ELSE None]

Status(t) ==
    LET s == SvcOf(task[t].cmd) IN
    /\ task[t].pc = "lock"
    /\ task[t].cmd \in StatusCmds
    /\ CanAcquire(s)
    /\ s = "tunnel" => UrlLockFree(state[s])
    /\ Return(t, IF s = "backend" THEN ServerStatus(state[s])
                                  ELSE TunnelStatus(state[s]))
    /\ UNCHANGED <<lock, state, procs, autoPc, hist, monitor, out, walk>>

\* ------------------------------------------------------ child processes
\* A child exits on its own; nothing in the host observes it.
Crash(p) ==
    /\ procs[p].alive
    /\ procs' = [procs EXCEPT ![p].alive = FALSE]
    /\ UNCHANGED <<state, lock, task, autoPc, hist, reply, monitor, out, walk>>

\* -------------------------------------------------------- auto-start
\* window::setup's spawned task: find_and_start_server launches
\* `node dist/index.js --port 8787`; the child is moved into a waiter task
\* and is recorded in no slot.
find_and_start_server ==
    /\ autoPc = "sleep"
    /\ \/ /\ autoPc' = "failed"
          /\ procs' = procs
       \/ /\ procs' = [procs EXCEPT ![0] = Proc("backend")]
          /\ autoPc' = "health"
    /\ UNCHANGED <<state, lock, task, hist, reply, monitor, out, walk>>

\* What a health probe's outcome does to the children: nothing.
ProcsAfterHealthKills(ok) ==
    IF ok THEN procs ELSE [procs EXCEPT ![0].alive = FALSE]
ProcsAfterHealth(ok) == procs

\* The curl health probe after the 2 s sleep: only its result is reported
\* (Ok, or Err("Server did not respond to health check") shown as an alert).
health_check ==
    /\ autoPc = "health"
    /\ \E ok \in BOOLEAN :
          /\ autoPc' = IF ok THEN "started" ELSE "failed"
          /\ procs' = ProcsAfterHealth(ok)
    /\ UNCHANGED <<state, lock, task, hist, reply, monitor, out, walk>>

\* ------------------------------------------------- tunnel output monitor
\* The task spawned by tunnel::start: it sleeps 2 s and ends.  It holds no
\* reference to the url cell and reads nothing from the child's stdout.
url_monitor(p) ==
    /\ monitor[p] = "sleep"
    /\ monitor' = [monitor EXCEPT ![p] = "done"]
    /\ UNCHANGED <<state, lock, procs, task, autoPc, hist, reply, out, walk>>

\* The tunnel child prints its public URL on its piped stdout.
Emit(p) ==
    /\ procs[p].svc = "tunnel"
    /\ procs[p].alive
    /\ p \notin out
    /\ out' = out \cup {p}
    /\ UNCHANGED <<state, lock, procs, task, autoPc, hist, reply, monitor, walk>>

\* ---------------------------------------------------------------- Next
Next ==
    \/ \E t \in Tasks : Invoke(t)
    \/ \E t \in Tasks : StartCheck(t)
    \/ \E t \in Tasks : server_start(t)
    \/ \E t \in Tasks : tunnel_start(t)
    \/ \E t \in Tasks : StartStore(t)
    \/ \E t \in Tasks : StopCheck(t)
    \/ \E t \in Tasks : StopKill(t)
    \/ \E t \in Tasks : Status(t)
    \/ \E p \in Pids : Crash(p)
    \/ find_and_start_server
    \/ health_check

\* Spec leaves the monitor task asleep and the tunnel's stdout unwritten:
\* neither is read by any handler.
Spec == Init /\ [][Next]_vars

\* The supervisor together with the tunnel child's output and its monitor.
NextTunnel ==
    \/ Next
    \/ \E p \in Pids : url_monitor(p)
    \/ \E p \in Pids : Emit(p)

TunnelSpec == Init /\ [][NextTunnel]_vars

\* The runtime keeps polling every handler that can make progress; the
\* UI's invocations and a child's own exit are under nobody's control.
HandlerStep(t) ==
    \/ StartCheck(t) \/ server_start(t) \/ tunnel_start(t) \/ StartStore(t)
    \/ StopCheck(t) \/ StopKill(t) \/ Status(t)

FairSpec ==
    /\ Spec
    /\ \A t \in Tasks : WF_vars(HandlerStep(t))
    /\ WF_vars(find_and_start_server)
    /\ WF_vars(health_check)

\* Runs of at most MaxLiveCmds commands, with the monitor task, under the
\* same scheduling assumptions.
NextLive ==
    \/ \E t \in 1..MaxLiveCmds : Invoke(t)
    \/ \E t \in Tasks : HandlerStep(t)
    \/ \E p \in Pids : Crash(p)
    \/ \E p \in Pids : url_monitor(p)
    \/ find_and_start_server
    \/ health_check

LiveSpec ==
    /\ Init
    /\ [][NextLive]_vars
    /\ \A t \in Tasks : WF_vars(HandlerStep(t))
    /\ \A p \in Pids : WF_vars(url_monitor(p))
    /\ WF_vars(find_and_start_server)
    /\ WF_vars(health_check)

\* ------------------------------------------------------ locator walks
supervisor == <<state, lock, procs, task, autoPc, hist, reply, monitor, out>>

\* Filesystems with the searched file at no level or at one level.
Marks(d) == {{}} \cup {{k} : k \in 0..d}

\* The inputs of one run: the function, the mode flags, the directories and
\* the filesystem.  Depth 0 of both chains is the same root directory.
\* A directory at depth d with the searched file at one of its levels or none.
Chains(max) == UNION {{<<d, m>> : m \in Marks(d)} : d \in 0..max}

WalkInputs ==
    {[NoWalk EXCEPT !.fn = "get_server_path", !.pc = "begin",
                    !.exeDepth = e[1], !.srv = e[2]] :
        e \in Chains(MaxDepth)}
    \cup
    {[NoWalk EXCEPT !.fn = "find_server_directory", !.pc = "begin",
                    !.debug = x[2], !.exeDepth = x[1][1], !.apps = x[1][2]] :
        x \in Chains(MaxDepth) \X BOOLEAN}
    \cup
    {[NoWalk EXCEPT !.fn = "find_project_root", !.pc = "begin",
                    !.cwdDepth = x[1][1], !.pkgCwd = x[1][2],
                    !.exeDepth = x[2][1], !.pkgExe = x[2][2]] :
        x \in {y \in Chains(MaxDepth) \X Chains(MaxDepth) :
                  (0 \in y[1][2]) = (0 \in y[2][2])}}
    \cup
    {[NoWalk EXCEPT !.fn = "start", !.pc = "begin",
                    !.dev = x[1], !.port = x[2],
                    !.cwdDepth = x[3][1], !.pkgCwd = x[3][2],
                    !.exeDepth = x[4][1], !.pkgExe = x[4][2], !.srv = x[5]] :
        x \in {y \in BOOLEAN \X Ports
                     \X Chains(MaxStartDepth) \X Chains(MaxStartDepth)
                     \X (SUBSET (0..MaxStartDepth)) :
                  /\ y[5] \in Marks(y[4][1])
                  /\ (0 \in y[3][2]) = (0 \in y[4][2])}}

\* `for _ in 0..limit`
LoopGoesOnUnbounded(iter, limit) == TRUE
LoopGoesOn(iter, limit) == iter < limit

\* One iteration of a walk: look for the file at the current directory, then
\* move to the parent (parent() = None / pop() = false at the root).
Inspect(w, marks, limit) ==
    IF ~LoopGoesOn(w.iter, limit)
    THEN [w EXCEPT !.loop = "exhausted"]
    ELSE IF w.cur \in marks
    THEN [w EXCEPT !.loop = "found", !.iter = @ + 1, !.n = @ + 1]
    ELSE IF w.cur = 0
    THEN [w EXCEPT !.loop = "root", !.iter = @ + 1, !.n = @ + 1]
    ELSE [w EXCEPT !.cur = @ - 1, !.iter = @ + 1, !.n = @ + 1]

\* server::start: is_development_mode() selects the one resolution tried.
locate_begin ==
    /\ walk.pc = "begin"
    /\ walk' =
         IF walk.fn = "get_server_path" \/ (walk.fn = "start" /\ ~walk.dev)
         THEN [walk EXCEPT !.pc = "gsp", !.cur = walk.exeDepth]
         ELSE IF walk.fn = "find_project_root" \/ (walk.fn = "start" /\ walk.dev)
         THEN [walk EXCEPT !.pc = "fpr_cwd", !.cur = walk.cwdDepth]
         ELSE IF walk.debug
         THEN [walk EXCEPT !.pc = "fsd", !.cur = walk.exeDepth]
         ELSE [walk EXCEPT !.pc = "done", !.cur = walk.exeDepth,
                           !.result = "fallback"]
    /\ UNCHANGED supervisor

\* get_server_path: up to 5 levels from the exe dir, else the fallback path
\* exe_dir/resources/server/index.js.
get_server_path ==
    /\ walk.pc = "gsp"
    /\ LET w == Inspect(walk, walk.srv, ServerPathLevels) IN
       walk' = IF w.loop = "none" THEN w
               ELSE IF walk.fn = "start" THEN [w EXCEPT !.pc = "prod_spawn"]
               ELSE [w EXCEPT !.pc = "done",
                              !.result = IF w.loop = "found" THEN "found"
                                         ELSE "fallback"]
    /\ UNCHANGED supervisor

\* find_project_root, first loop: up to 10 levels from the working directory.
find_project_root_cwd ==
    /\ walk.pc = "fpr_cwd"
    /\ LET w == Inspect(walk, walk.pkgCwd, ProjectRootCwdLevels) IN
       walk' = IF w.loop = "none" THEN w
               ELSE IF w.loop = "found"
               THEN IF walk.fn = "start" THEN [w EXCEPT !.pc = "dev_spawn"]
                    ELSE [w EXCEPT !.pc = "done", !.result = "found"]
               ELSE [w EXCEPT !.pc = "fpr_exe", !.cur = walk.exeDepth,
                              !.iter = 0, !.loop = "none"]
    /\ UNCHANGED supervisor

\* find_project_root, second loop: up to 5 levels from the exe dir, else Err.
find_project_root_exe ==
    /\ walk.pc = "fpr_exe"
    /\ LET w == Inspect(walk, walk.pkgExe, ProjectRootExeLevels) IN
       walk' = IF w.loop = "none" THEN w
               ELSE IF walk.fn = "start" THEN [w EXCEPT !.pc = "dev_spawn"]
               ELSE [w EXCEPT !.pc = "done",
                              !.result = IF w.loop = "found" THEN "found"
                                         ELSE "error"]
    /\ UNCHANGED supervisor

\* find_server_directory (debug build): up to 10 levels from the exe dir,
\* else Err; the release build returns exe_dir/resources/server unwalked.
find_server_directory ==
    /\ walk.pc = "fsd"
    /\ LET w == Inspect(walk, walk.apps, ServerDirLevels) IN
       walk' = IF w.loop = "none" THEN w
               ELSE [w EXCEPT !.pc = "done",
                              !.result = IF w.loop = "found" THEN "found"
                                         ELSE "error"]
    /\ UNCHANGED supervisor

\* start_production_server: the path must exist, then
\* `node <script>` is spawned with env PORT = port.
start_production_server ==
    /\ walk.pc = "prod_spawn"
    /\ IF walk.loop # "found"
       THEN walk' = [walk EXCEPT !.pc = "done", !.result = "NotFound"]
       ELSE \E ok \in BOOLEAN :
              walk' = [walk EXCEPT !.pc = "done",
                          !.result = IF ok THEN "spawned" ELSE "SpawnError",
                          !.target = "production",
                          !.launchPort = IF ok THEN Some(walk.port) ELSE None]
    /\ UNCHANGED supervisor

\* start_dev_server: the project root must be found, then `npm run dev` is
\* spawned in <root>/apps/server; the port is in neither argument nor env.
start_dev_server ==
    /\ walk.pc = "dev_spawn"
    /\ IF walk.loop # "found"
       THEN walk' = [walk EXCEPT !.pc = "done", !.result = "NotFound"]
       ELSE \E ok \in BOOLEAN :
              walk' = [walk EXCEPT !.pc = "done",
                          !.result = IF ok THEN "spawned" ELSE "SpawnError",
                          !.target = "development",
                          !.launchPort = None]
    /\ UNCHANGED supervisor

LocInit ==
    /\ SupervisorInit
    /\ walk \in WalkInputs

LocNext ==
    \/ locate_begin
    \/ get_server_path
    \/ find_project_root_cwd
    \/ find_project_root_exe
    \/ find_server_directory
    \/ start_production_server
    \/ start_dev_server

\* The locator functions are straight-line synchronous code: a started
\* function keeps running.
LocSpec == LocInit /\ [][LocNext]_vars /\ WF_vars(LocNext)

\* ------------------------------------------------------------- claims
InCritical(t) == task[t].pc \in {"spawn", "store", "kill"}
Steps(t) == task'[t] # task[t]
ReplyOf(t, r) == [cmd |-> task[t].cmd, result |-> r]

\* C1: a start issued while the slot is non-empty returns AlreadyRunning,
\* spawns no child process and leaves the recorded instance unchanged; a
\* start command only ever spawns while its slot is empty.
C1_StartWhileRunningRejected ==
    [][\A t \in Tasks :
         LET s == SvcOf(task[t].cmd) IN
         /\ (task[t].cmd \in StartCmds /\ task[t].pc = "lock" /\ Steps(t)
               /\ is_some(state[s]))
            => /\ task'[t].pc = "done"
               /\ reply' = ReplyOf(t, AlreadyRunning(s))
               /\ procs' = procs
               /\ state' = state
         /\ (task[t].cmd \in StartCmds /\ procs'[t] # procs[t] /\ procs'[t].alive)
            => is_none(state[s])]_vars

C1_Witness ==
    /\ reply.cmd \in StartCmds
    /\ reply.result = AlreadyRunning(SvcOf(reply.cmd))
    /\ is_some(state[SvcOf(reply.cmd)])

C3_StopOnEmptyIsNotRunning ==
    [][\A t \in Tasks :
         LET s == SvcOf(task[t].cmd) IN
         (task[t].cmd \in StopCmds /\ task[t].pc = "lock" /\ Steps(t)
            /\ is_none(state[s]))
         => /\ task'[t].pc = "done"
            /\ reply' = ReplyOf(t, NotRunning(s))
            /\ state' = state
            /\ procs' = procs
            /\ lock' = lock]_vars

C3_Witness ==
    /\ reply.cmd = "stop_tunnel"
    /\ reply.result = NotRunning("tunnel")
    /\ is_none(state["tunnel"])
    /\ is_some(state["backend"])

\* C4: get_server_status answers running = true with the port of the last
\* successful start_server until the next stop, and running = false once a
\* stop_server has been performed, until the next successful start.
C4_StatusFollowsStartStop ==
    [][\A t \in Tasks :
         (task[t].cmd = "get_server_status" /\ task[t].pc = "lock" /\ Steps(t))
         => /\ reply'.cmd = "get_server_status"
            /\ reply'.result.ok
            /\ hist.op = "start" => /\ reply'.result.running
                                    /\ reply'.result.port = hist.port
            /\ hist.op = "stop" => ~reply'.result.running]_vars

C4_Witness ==
    /\ reply.cmd = "get_server_status"
    /\ reply.result.running
    /\ hist.op = "start"
    /\ reply.result.port = hist.port
    /\ hist.port # DEFAULT_STATUS_PORT

\* C5: once the child recorded in a slot has exited on its own, the slot is
\* eventually cleared.
DeadHandle(s) == is_some(state[s]) /\ ~procs[unwrap(state[s]).child].alive

C5_CrashEventuallyCleared ==
    \A s \in Services : DeadHandle(s) ~> is_none(state[s])

\* C6: a stop whose kill fails returns the StopError and leaves the slot
\* empty: status would report running = false and a start would not be
\* rejected.
C6_FailedStopClearsSlot ==
    [][\A t \in Tasks :
         LET s == SvcOf(task[t].cmd) IN
         (task[t].pc = "kill" /\ Steps(t) /\ ~reply'.result.ok)
         => /\ reply' = ReplyOf(t, StopError(s))
            /\ is_none(state'[s])
            /\ ~ServerStatus(state'[s]).running
            /\ ~TunnelStatus(state'[s]).running
            /\ ~StartRejects(state'[s])
            /\ t \notin lock'[LockOf(s)]]_vars

C6_Witness ==
    /\ reply.cmd \in StopCmds
    /\ reply.result = StopError(SvcOf(reply.cmd))
    /\ is_none(state[SvcOf(reply.cmd)])
    /\ LiveProcs(SvcOf(reply.cmd)) # {}

\* C7: at most one live child process exists per service.
C7_AtMostOneLiveChild ==
    \A s \in Services : Cardinality(LiveProcs(s)) <= 1

\* C8: whenever a child of a service is alive, a stop command for that
\* service is accepted instead of being answered NotRunning.
C8_StopAcceptedWhileChildAlive ==
    [][\A t \in Tasks :
         LET s == SvcOf(task[t].cmd) IN
         (task[t].cmd \in StopCmds /\ task[t].pc = "lock" /\ Steps(t)
            /\ LiveProcs(s) # {})
         => task'[t].pc = "kill"]_vars

\* C9: a command is never kept waiting by the other service: it can take its
\* first step whenever no command of its own service is inside the critical
\* section, and every later step of a handler is always possible.
C9_ServicesDoNotBlockEachOther ==
    \A t \in Tasks :
        LET s == SvcOf(task[t].cmd) IN
        /\ (/\ task[t].pc = "lock"
            /\ \A u \in Tasks : InCritical(u) => SvcOf(task[u].cmd) # s)
           => ENABLED HandlerStep(t)
        /\ InCritical(t) => ENABLED HandlerStep(t)

C9_Witness ==
    \E t, u \in Tasks :
        /\ task[t].cmd = "stop_server" /\ task[t].pc = "kill"
        /\ task[u].cmd = "start_tunnel" /\ task[u].pc = "store"
        /\ lock["backend"] = {t}
        /\ lock["tunnel"] = {u}

\* C10: a status command is never kept waiting behind a stop of the same
\* slot that is awaiting the killed child's exit.
C10_StatusNotBlockedByPendingKill ==
    \A t \in Tasks :
        (/\ task[t].cmd \in StatusCmds
         /\ task[t].pc = "lock"
         /\ \E u \in Tasks : /\ task[u].pc = "kill"
                             /\ SvcOf(task[u].cmd) = SvcOf(task[t].cmd))
        => ENABLED Status(t)

\* C11: for a running tunnel whose URL has not been observed, the URL query
\* yields None as a successful result: get_tunnel_status answers Ok with
\* running = true and url = None.
C11_UrlUnavailableIsNotAnError ==
    [][\A t \in Tasks :
         (/\ task[t].cmd = "get_tunnel_status" /\ task[t].pc = "lock" /\ Steps(t)
          /\ is_some(state["tunnel"])
          /\ is_none(get_url(unwrap(state["tunnel"]))))
         => /\ reply'.cmd = "get_tunnel_status"
            /\ reply'.result.ok
            /\ reply'.result.running
            /\ reply'.result.url = None]_vars

C11_Witness ==
    /\ reply.cmd = "get_tunnel_status"
    /\ reply.result.ok
    /\ reply.result.running
    /\ reply.result.url = None
    /\ is_some(state["tunnel"])

\* C13: a start_server that fails in server::start (target not found, spawn
\* refused) leaves the backend slot empty as it was: no child, status would
\* report running = false and a start would not be rejected.
C13_FailedStartLeavesSlotEmpty ==
    [][\A t \in Tasks :
         (/\ task[t].cmd = "start_server" /\ task[t].pc = "spawn"
          /\ task'[t].pc = "done")
         => /\ ~reply'.result.ok
            /\ reply'.result.msg \in {"Server executable not found",
                                      "Failed to start server"}
            /\ state' = state
            /\ is_none(state'["backend"])
            /\ procs' = procs
            /\ ~ServerStatus(state'["backend"]).running
            /\ ~StartRejects(state'["backend"])
            /\ t \notin lock'["backend"]]_vars

C13_Witness ==
    /\ reply.cmd = "start_server"
    /\ reply.result = Err("Server executable not found")
    /\ is_none(state["backend"])
    /\ \A u \in Tasks : ~InCritical(u)

\* C17: a health check that does not report readiness kills or stops
\* nothing: the step only moves the auto-start task to its reported outcome.
C17_HealthCheckNeverFatal ==
    [][(autoPc = "health" /\ autoPc' # autoPc)
         => /\ autoPc' \in {"started", "failed"}
            /\ procs' = procs
            /\ state' = state]_vars

C17_Witness ==
    /\ autoPc = "failed"
    /\ procs[0].alive

\* C18: whenever start_tunnel has spawned the tunnel, the handle is in the
\* slot when the command returns, also when it returns "Tunnel started but
\* URL not available": status would report running = true, a further start
\* would be rejected and a stop accepted.
C18_TunnelHandleStoredOnUrlError ==
    [][\A t \in Tasks :
         (task[t].cmd = "start_tunnel" /\ task[t].pc = "store" /\ Steps(t))
         => /\ task'[t].pc = "done"
            /\ reply'.cmd = "start_tunnel"
            /\ state'["tunnel"] = task[t].handle
            /\ TunnelStatus(state'["tunnel"]).running
            /\ StartRejects(state'["tunnel"])
            /\ ~StopRejects(state'["tunnel"])]_vars

C18_Witness ==
    /\ reply.cmd = "start_tunnel"
    /\ reply.result = Err("Tunnel started but URL not available")
    /\ is_some(state["tunnel"])
    /\ procs[unwrap(state["tunnel"]).child].alive

\* C16: every concurrent execution is a sequential execution of an atomic
\* slot machine.  AbsSlot maps the program's state to the atomic slot (a stop
\* that has taken the handle takes effect when it returns); every step either
\* leaves the atomic slot alone or is one complete operation of the atomic
\* machine, performed at the step at which the command returns, with the
\* reply the atomic machine gives.
AbsEmpty == [occupied |-> FALSE, port |-> 0]
AbsOf(o) == IF is_some(o) THEN [occupied |-> TRUE, port |-> unwrap(o).port]
            ELSE AbsEmpty

AbsSlot(s) ==
    LET stopping == {t \in Tasks : task[t].pc = "kill" /\ SvcOf(task[t].cmd) = s}
    IN IF is_some(state[s]) THEN AbsOf(state[s])
       ELSE IF stopping # {}
            THEN AbsOf(task[CHOOSE t \in stopping : TRUE].handle)
            ELSE AbsEmpty

\* The atomic machine: operation cmd(port) takes slot a to a2 and answers r.
AbsOp(cmd, port, a, a2, r) ==
    LET s == SvcOf(cmd) IN
    IF cmd \in StartCmds
    THEN IF a.occupied
         THEN a2 = a /\ r = AlreadyRunning(s)
         ELSE \/ a2 = a /\ ~r.ok /\ r # AlreadyRunning(s)
                        /\ r.msg # "Tunnel started but URL not available"
              \/ /\ a2 = [occupied |-> TRUE, port |-> port]
                 /\ IF s = "backend"
                    THEN r = OkMsg("Server started on port", port)
                    ELSE \/ r = Err("Tunnel started but URL not available")
                         \/ r.ok /\ is_some(r.url)
    ELSE IF cmd \in StopCmds
    THEN IF a.occupied
         THEN a2 = AbsEmpty /\ (r = StopError(s) \/ (r.ok /\ r.msg # "status"))
         ELSE a2 = a /\ r = NotRunning(s)
    ELSE /\ a2 = a
         /\ r.ok
         /\ r.running = a.occupied
         /\ s = "backend" =>
               r.port = IF a.occupied THEN a.port ELSE DEFAULT_STATUS_PORT

Returning(t) == task[t].pc \notin {"idle", "done"} /\ task'[t].pc = "done"

C16_LinearizableSlot ==
    [][\A s \in Services :
         LET ret == {t \in Tasks : Returning(t) /\ SvcOf(task[t].cmd) = s} IN
         IF ret = {}
         THEN AbsSlot(s)' = AbsSlot(s)
         ELSE \A t \in ret :
                AbsOp(task[t].cmd, task[t].port, AbsSlot(s), AbsSlot(s)',
                      reply'.result)]_vars

C16_Witness ==
    \E t, u \in Tasks :
        /\ task[t].cmd = "stop_server" /\ task[t].pc = "kill"
        /\ task[u].cmd = "get_server_status" /\ task[u].pc = "lock"
        /\ AbsSlot("backend").occupied
        /\ is_none(state["backend"])

\* C12: once the tunnel child recorded in the slot has written its URL and
\* its monitor task has run, the URL is in the instance's url cell (so that
\* get_tunnel_status reports it).
C12_EmittedUrlIsRecorded ==
    \A p \in Pids :
        (/\ is_some(state["tunnel"])
         /\ unwrap(state["tunnel"]).child = p
         /\ p \in out
         /\ monitor[p] = "done")
        => /\ is_some(get_url(unwrap(state["tunnel"])))
           /\ is_some(TunnelStatus(state["tunnel"]).url)

\* C19: the slot mutex is held only by a handler between its check and its
\* return, and every invoked command eventually returns.
C19_HandlersReturnAndReleaseLocks ==
    /\ [](\A s \in Services : \A t \in lock[s] :
             InCritical(t) /\ SvcOf(task[t].cmd) = s)
    /\ \A t \in Tasks :
          (task[t].pc \notin {"idle", "done"}) ~> (task[t].pc = "done")

C19_Witness ==
    /\ reply.cmd = "get_tunnel_status"
    /\ reply.result.running
    /\ \A t \in 1..MaxLiveCmds : task[t].pc = "done"
    /\ \A s \in Services : lock[s] = {}
    /\ \E p \in Pids : monitor[p] = "sleep"

\* C14: resolution uses the production layout whenever it exists, falls
\* back to the development layout otherwise, and answers NotFound only when
\* neither layout exists.
ProdLayout == walk.exeDepth \in walk.srv
DevLayout == walk.pkgCwd # {} \/ walk.pkgExe # {}

C14_ProductionFirstThenDevelopment ==
    (walk.fn = "start" /\ walk.pc = "done")
    => /\ ProdLayout => walk.target = "production"
       /\ (~ProdLayout /\ DevLayout) => walk.target = "development"
       /\ walk.result = "NotFound" => (~ProdLayout /\ ~DevLayout)

\* C15: every walk inspects a bounded number of levels (5; 10 then 5; 10),
\* never goes above the root, can always take its next step until it has
\* returned, gives up below its bound only at the root, and returns.
WalkLimit ==
    IF walk.fn = "get_server_path" THEN ServerPathLevels
    ELSE IF walk.fn = "find_server_directory" THEN ServerDirLevels
    ELSE IF walk.fn = "find_project_root"
    THEN ProjectRootCwdLevels + ProjectRootExeLevels
    ELSE IF walk.dev THEN ProjectRootCwdLevels + ProjectRootExeLevels
    ELSE ServerPathLevels

C15_WalkBounded ==
    /\ walk.cur >= 0
    /\ walk.n <= WalkLimit
    /\ walk.pc = "gsp" => walk.iter <= ServerPathLevels
    /\ walk.pc = "fpr_cwd" => walk.iter <= ProjectRootCwdLevels
    /\ walk.pc = "fpr_exe" => walk.iter <= ProjectRootExeLevels
    /\ walk.pc = "fsd" => walk.iter <= ServerDirLevels
    /\ walk.pc \notin {"idle", "done"} => ENABLED LocNext
    /\ (walk.pc = "done" /\ walk.fn # "start")
       => /\ walk.result \in {"found", "fallback", "error"}
          /\ walk.fn = "get_server_path" => walk.result # "error"
          /\ walk.fn = "find_project_root" => walk.result # "fallback"
          /\ (walk.result # "found" /\ walk.iter < WalkLimit
                /\ (walk.fn = "get_server_path"
                      \/ (walk.fn = "find_server_directory" /\ walk.debug)))
             => walk.cur = 0
          /\ (walk.fn = "find_project_root" /\ walk.result = "error"
                /\ walk.iter < ProjectRootExeLevels)
             => walk.cur = 0

C15_WalksTerminate ==
    /\ []C15_WalkBounded
    /\ <>(walk.pc = "done")

C15_Witness ==
    /\ walk.fn = "find_project_root"
    /\ walk.pc = "done"
    /\ walk.result = "error"
    /\ walk.n = ProjectRootCwdLevels + ProjectRootExeLevels
    /\ walk.cur > 0

\* C20: every successful server::start(port) launches the child with that
\* port, as argument or environment.
C20_LaunchedWithRecordedPort ==
    (walk.fn = "start" /\ walk.pc = "done" /\ walk.result = "spawned")
    => walk.launchPort = Some(walk.port)

=============================================================================
